---- MODULE Spec2Model ----
(***************************************************************************)
(* Model of tuido's terminal UI (src/tui/tui.go): the tui struct, its      *)
(* Update handler, tab, currentSelection and populateRenderSelection.      *)
(*                                                                         *)
(* Strings are sequences of one-character strings, so that prefixes and    *)
(* whitespace splitting are computed and not assumed.  Items are heap      *)
(* objects ([]*tuido.Item): `items` holds them, and renderSelection holds  *)
(* pointers to them, here 1-based indices into items.  Go slice indices    *)
(* are 0-based: renderSelection[selection] is element selection + 1.       *)
(***************************************************************************)
EXTENDS Integers, Sequences, FiniteSets, TLC

VARIABLES items, itemsFilter, renderSelection, selection, mode, filter, h, w,
          tagColors, pc

vars == <<items, itemsFilter, renderSelection, selection, mode, filter, h, w,
          tagColors, pc>>

(***************************************************************************)
(* Bounds of the model.                                                    *)
(***************************************************************************)
\* number of items handed to newTUI
NumItems == 2
\* longest filter text the user types
MaxFilterLen == 2
\* most occurrences of one tag in the item sets handed to populateTagColorStyles
MaxRepeat == 359

(***************************************************************************)
(* Types and inputs.                                                       *)
(***************************************************************************)
Status == {"Open", "Ongoing", "Checked", "Obsolete"}

\* itemType constants
todo == "todo"
done == "done"

\* mode constants (the mode `filter` is declared but never assigned)
navigation == "navigation"
help == "help"

\* the tag lists of the items, by position in the item list
TagLists ==
    << << <<"#", "a">>, <<"#", "a", "q">> >>,
       << <<"#", "q">> >>,
       << >>,
       << <<"#", "a">>, <<"#", "a">> >> >>

ItemTags(i) == TagLists[((i - 1) % Len(TagLists)) + 1]

\* keys that tea.KeyMsg.String() yields as a single character
Runes == {"x", "-", "~", "s", "@", "a", " ", "/", "?", "q", "#"}

Keys == Runes \cup {"up", "down", "tab", "esc", "backspace"}

StatusKeys == {"x", "-", "~", "s", "@", "a", " "}

\* the keys the user presses while the filter input is focused: the characters
\* of the tags and the separator (a, q and space also act in Navigation),
\* editing keys and the keys that leave the input
FilterKeys == {"#", "a", "q", " ", "backspace", "up", "esc", "tab", "down"}

Heights == {24}
Widths == {80}

KeyMsg(k) == [type |-> "KeyMsg", key |-> k, Height |-> 0, Width |-> 0]
WindowSizeMsg(hh, ww) == [type |-> "WindowSizeMsg", key |-> "", Height |-> hh, Width |-> ww]
\* any other message, such as the blink message of the command Init returns
BlinkMsg == [type |-> "blinkMsg", key |-> "", Height |-> 0, Width |-> 0]

(***************************************************************************)
(* Package tuido (not part of the sources at hand): Item and Tags.         *)
(***************************************************************************)
Satus(item) == item.status

SetStatus(its, p, s) == [its EXCEPT ![p].status = s]

ItemTagsOf(item) == item.tags

IsSpace(c) == c = " "

\* the whitespace-separated tokens of a text
RECURSIVE Fields(_, _)
Fields(s, cur) ==
    IF s = << >>
    THEN IF cur = << >> THEN << >> ELSE << cur >>
    ELSE IF IsSpace(Head(s))
         THEN (IF cur = << >> THEN << >> ELSE << cur >>) \o Fields(Tail(s), << >>)
         ELSE Fields(Tail(s), Append(cur, Head(s)))

\* the tokens of a text that begin with #
Tags(s) == SelectSeq(Fields(s, << >>), LAMBDA tok : Head(tok) = "#")

(***************************************************************************)
(* strings.HasPrefix                                                       *)
(***************************************************************************)
HasPrefix(s, prefix) ==
    /\ Len(prefix) <= Len(s)
    /\ SubSeq(s, 1, Len(prefix)) = prefix

(***************************************************************************)
(* textinput.Model as used by the tui: value and focus.  The text cursor   *)
(* stays at the end of the value (no key of Keys moves it).                *)
(***************************************************************************)
textinputNew == [value |-> << >>, focus |-> FALSE]

Focused(f) == f.focus
Blur(f) == [f EXCEPT !.focus = FALSE]
Focus(f) == [f EXCEPT !.focus = TRUE]
Value(f) == f.value

textinputUpdate(f, k) ==
    IF ~f.focus THEN f
    ELSE IF k \in Runes THEN [f EXCEPT !.value = Append(@, k)]
    ELSE IF k = "backspace" /\ Len(f.value) > 0
         THEN [f EXCEPT !.value = SubSeq(@, 1, Len(@) - 1)]
    ELSE f

(***************************************************************************)
(* populateRenderSelection                                                 *)
(***************************************************************************)
RECURSIVE Repeat(_, _)
Repeat(x, n) == IF n <= 0 THEN << >> ELSE << x >> \o Repeat(x, n - 1)

RECURSIVE Flatten(_)
Flatten(ss) == IF ss = << >> THEN << >> ELSE Head(ss) \o Flatten(Tail(ss))

\* mutant: the status loops walk the items from the last to the first
ByStatusBackwards(its, sts) ==
    SelectSeq([i \in 1..Len(its) |-> Len(its) + 1 - i], LAMBDA p : Satus(its[p]) \in sts)

\* the pointers to the items of its whose status is in the set sts, in order
ByStatus(its, sts) ==
    SelectSeq([i \in 1..Len(its) |-> i], LAMBDA p : Satus(its[p]) \in sts)

\* mutant: the Resolved view tests Ongoing where it should test Obsolete
ViewStatusesWrongDone(f) ==
    IF f = todo THEN {"Ongoing", "Open"}
    ELSE IF f = done THEN {"Checked", "Ongoing"}
    ELSE {}

ViewStatuses(f) ==
    IF f = todo THEN {"Ongoing", "Open"}
    ELSE IF f = done THEN {"Checked", "Obsolete"}
    ELSE {}

\* the inner two loops: item p is appended once per pair (iTag, fTag) with
\* fTag a prefix of iTag; the continue only ends an iteration of the
\* innermost loop
AppendsOf(its, p, filterTags) ==
    LET itemTags == ItemTagsOf(its[p])
        hits == {ij \in (1..Len(itemTags)) \X (1..Len(filterTags)) :
                    HasPrefix(itemTags[ij[1]], filterTags[ij[2]])}
    IN Repeat(p, Cardinality(hits))

Filtered(its, rs, filterTags) ==
    Flatten([n \in 1..Len(rs) |-> AppendsOf(its, rs[n], filterTags)])

\* mutant: the cursor is kept at 0 when the list is empty
ReclampFloorZero(sel, rs) ==
    IF sel + 1 >= Len(rs) THEN (IF Len(rs) = 0 THEN 0 ELSE Len(rs) - 1) ELSE sel

Reclamp(sel, rs) == IF sel + 1 >= Len(rs) THEN Len(rs) - 1 ELSE sel

\* mutant: the list is not reset before the loops append to it (line 227)
populateRenderSelectionNoReset(t) ==
    LET byView == t.renderSelection \o ByStatus(t.items, ViewStatuses(t.itemsFilter))
        filterTags == Tags(Value(t.filter))
        rs == IF Len(filterTags) # 0
              THEN Filtered(t.items, byView, filterTags)
              ELSE byView
    IN [t EXCEPT !.renderSelection = rs,
                 !.selection = Reclamp(t.selection, rs)]

populateRenderSelection(t) ==
    LET byView == ByStatus(t.items, ViewStatuses(t.itemsFilter))
        filterTags == Tags(Value(t.filter))
        rs == IF Len(filterTags) # 0
              THEN Filtered(t.items, byView, filterTags)
              ELSE byView
    IN [t EXCEPT !.renderSelection = rs,
                 !.selection = Reclamp(t.selection, rs)]

(***************************************************************************)
(* tab, currentSelection                                                   *)
(***************************************************************************)
Toggle(f) == IF f = todo THEN done ELSE IF f = done THEN todo ELSE f

\* mutant: the view is toggled and visible is not recomputed
tabNoRecompute(t) == [t EXCEPT !.itemsFilter = Toggle(@)]

tab(t) == populateRenderSelection([t EXCEPT !.itemsFilter = Toggle(@)])

\* the tui after currentSelection's optional recomputation, and whether the
\* index expression renderSelection[selection] is in range
currentSelection(t) ==
    LET t1 == IF Len(t.renderSelection) = 0 THEN populateRenderSelection(t) ELSE t
        ok == 0 <= t1.selection /\ t1.selection < Len(t1.renderSelection)
    IN [t |-> t1,
        ok |-> ok,
        item |-> IF ok THEN t1.renderSelection[t1.selection + 1] ELSE 0]

(***************************************************************************)
(* Update                                                                  *)
(***************************************************************************)
\* mutant: the case "s" sets Open
StatusOfKeyWrongS(k) ==
    CASE k = "x" -> "Checked"
      [] k \in {"-", "~"} -> "Obsolete"
      [] k \in {"@", "a"} -> "Ongoing"
      [] k \in {" ", "s"} -> "Open"

StatusOfKey(k) ==
    CASE k = "x" -> "Checked"
      [] k \in {"-", "~", "s"} -> "Obsolete"
      [] k \in {"@", "a"} -> "Ongoing"
      [] k = " " -> "Open"

Ret(t, cmd) == [t |-> t, cmd |-> cmd, panic |-> FALSE]

\* an index out of range: the handler does not return
Panic(t) == [t |-> t, cmd |-> "nil", panic |-> TRUE]

setStatusOnCurrent(t, s) ==
    LET c == currentSelection(t)
    IN IF c.ok
       THEN Ret([c.t EXCEPT !.items = SetStatus(@, c.item, s)], "nil")
       ELSE Panic(c.t)

\* the switch on msg.String()
\* mutant: esc quits as q does
keySwitchEscQuits(t, k) ==
    CASE k = "up" ->
            Ret(IF t.selection > 0 THEN [t EXCEPT !.selection = @ - 1] ELSE t, "nil")
      [] k = "down" ->
            Ret(IF t.selection + 1 < Len(t.renderSelection)
                THEN [t EXCEPT !.selection = @ + 1] ELSE t, "nil")
      [] k = "tab" -> Ret(tab(t), "nil")
      [] k \in StatusKeys -> setStatusOnCurrent(t, StatusOfKey(k))
      [] k = "/" -> Ret([t EXCEPT !.filter = Focus(@)], "nil")
      [] k = "?" -> Ret([t EXCEPT !.mode = help], "nil")
      [] k \in {"q", "esc"} -> Ret(t, "Quit")
      [] OTHER -> Ret(t, "nil")

keySwitch(t, k) ==
    CASE k = "up" ->
            Ret(IF t.selection > 0 THEN [t EXCEPT !.selection = @ - 1] ELSE t, "nil")
      [] k = "down" ->
            Ret(IF t.selection + 1 < Len(t.renderSelection)
                THEN [t EXCEPT !.selection = @ + 1] ELSE t, "nil")
      [] k = "tab" -> Ret(tab(t), "nil")
      [] k \in StatusKeys -> setStatusOnCurrent(t, StatusOfKey(k))
      [] k = "/" -> Ret([t EXCEPT !.filter = Focus(@)], "nil")
      [] k = "?" -> Ret([t EXCEPT !.mode = help], "nil")
      [] k = "q" -> Ret(t, "Quit")
      [] OTHER -> Ret(t, "nil")

\* mutant: down is not among the keys that leave the filter input
updateBodyDownTyped(t, m) ==
    LET t1 == populateRenderSelection(t) IN
    CASE m.type = "KeyMsg" ->
            IF Focused(t1.filter)
            THEN IF m.key \in {"esc", "tab"}
                 THEN keySwitch([t1 EXCEPT !.filter = Blur(@)], m.key)
                 ELSE Ret([t1 EXCEPT !.filter = textinputUpdate(@, m.key)], "nil")
            ELSE keySwitch(t1, m.key)
      [] m.type = "WindowSizeMsg" ->
            Ret([t1 EXCEPT !.h = m.Height, !.w = m.Width], "nil")
      [] OTHER -> Ret(t1, "nil")

\* mutant: ? typed in the focused filter input reaches the key switch
updateBodyHelpFromFilter(t, m) ==
    LET t1 == populateRenderSelection(t) IN
    CASE m.type = "KeyMsg" ->
            IF Focused(t1.filter)
            THEN IF m.key \in {"esc", "tab", "down"}
                 THEN keySwitch([t1 EXCEPT !.filter = Blur(@)], m.key)
                 ELSE IF m.key = "?"
                 THEN keySwitch(t1, m.key)
                 ELSE Ret([t1 EXCEPT !.filter = textinputUpdate(@, m.key)], "nil")
            ELSE keySwitch(t1, m.key)
      [] m.type = "WindowSizeMsg" ->
            Ret([t1 EXCEPT !.h = m.Height, !.w = m.Width], "nil")
      [] OTHER -> Ret(t1, "nil")

\* mutant: Update does not recompute the list on entry (line 147)
updateBodyNoRecompute(t, m) ==
    CASE m.type = "KeyMsg" ->
            IF Focused(t.filter)
            THEN IF m.key \in {"esc", "tab", "down"}
                 THEN keySwitch([t EXCEPT !.filter = Blur(@)], m.key)
                 ELSE Ret([t EXCEPT !.filter = textinputUpdate(@, m.key)], "nil")
            ELSE keySwitch(t, m.key)
      [] m.type = "WindowSizeMsg" ->
            Ret([t EXCEPT !.h = m.Height, !.w = m.Width], "nil")
      [] OTHER -> Ret(t, "nil")

\* from the recomputation on entry to the end of the handler
updateBody(t, m) ==
    LET t1 == populateRenderSelection(t) IN
    CASE m.type = "KeyMsg" ->
            IF Focused(t1.filter)
            THEN IF m.key \in {"esc", "tab", "down"}
                 THEN keySwitch([t1 EXCEPT !.filter = Blur(@)], m.key)
                 ELSE Ret([t1 EXCEPT !.filter = textinputUpdate(@, m.key)], "nil")
            ELSE keySwitch(t1, m.key)
      [] m.type = "WindowSizeMsg" ->
            Ret([t1 EXCEPT !.h = m.Height, !.w = m.Width], "nil")
      [] OTHER -> Ret(t1, "nil")

\* mutant: the Help branch lacks its return, so the key that dismisses Help
\* is handled as a Navigation key as well
UpdateHelpFallsThrough(t, m) ==
    IF t.mode = help /\ m.type = "KeyMsg"
    THEN updateBody([t EXCEPT !.mode = navigation], m)
    ELSE updateBody(t, m)

\* mutant: q pressed while the help screen is shown quits
UpdateHelpQuitOnQ(t, m) ==
    IF t.mode = help /\ m.type = "KeyMsg"
    THEN Ret([t EXCEPT !.mode = navigation], IF m.key = "q" THEN "Quit" ELSE "nil")
    ELSE updateBody(t, m)

Update(t, m) ==
    IF t.mode = help /\ m.type = "KeyMsg"
    THEN Ret([t EXCEPT !.mode = navigation], "nil")
    ELSE updateBody(t, m)

(***************************************************************************)
(* populateTagColorStyles.  A style is represented by the integer hue it   *)
(* is built from.  The offset rand.Float64() * 360 is a number of          *)
(* 1/OffsetDen degrees, and the float64 expression offset + i * interval   *)
(* is computed exactly, as a fraction, before int() truncates it.          *)
(***************************************************************************)
\* degrees of the hue circle
FullCircle == 360

OffsetDen == 2

\* hue of occurrence i (from 0) of n occurrences, for the offset off / OffsetDen
Hue(off, i, n) ==
    ((off * n + i * FullCircle * OffsetDen) \div (OffsetDen * n)) % FullCircle

\* the map built by the loop: a tag keeps the style of its last occurrence
populateTagColorStyles(its, off) ==
    LET tags == Flatten([p \in 1..Len(its) |-> ItemTagsOf(its[p])])
        n == Len(tags)
        last(tag) == CHOOSE i \in 1..n :
                        tags[i] = tag /\ \A j \in (i + 1)..n : tags[j] # tag
    IN [tag \in {tags[i] : i \in 1..n} |-> Hue(off, last(tag) - 1, n)]

(***************************************************************************)
(* The program: newTUI, then one Update per message.                       *)
(***************************************************************************)
\* the tui value the runtime holds
\* (without tagColors, which no method reads or writes)
T == [items |-> items, itemsFilter |-> itemsFilter,
      renderSelection |-> renderSelection, selection |-> selection,
      mode |-> mode, filter |-> filter, h |-> h, w |-> w]

newTUI(its) ==
    [items |-> its, itemsFilter |-> todo, renderSelection |-> << >>,
     selection |-> 0, mode |-> navigation, filter |-> textinputNew,
     h |-> 0, w |-> 0]

ItemLists ==
    {[i \in 1..NumItems |-> [status |-> st[i], tags |-> ItemTags(i)]] :
        st \in [1..NumItems -> Status]}

Init ==
    \E its \in ItemLists :
        LET t == newTUI(its) IN
        /\ items = t.items
        /\ itemsFilter = t.itemsFilter
        /\ renderSelection = t.renderSelection
        /\ selection = t.selection
        /\ mode = t.mode
        /\ filter = t.filter
        /\ h = t.h
        /\ w = t.w
        /\ tagColors = populateTagColorStyles(its, 0)
        /\ pc = "running"

\* the runtime hands m to Update and keeps the model it returns; a panic
\* ends the program (the items and the model the runtime holds stay as they
\* were), and so does the Quit command
Handle(m) ==
    /\ pc = "running"
    /\ UNCHANGED tagColors
    /\ \E r \in {Update(T, m)} :
        /\ pc' = IF r.panic THEN "panic" ELSE IF r.cmd = "Quit" THEN "quit" ELSE "running"
        /\ IF r.panic
           THEN UNCHANGED <<items, itemsFilter, renderSelection, selection, mode, filter, h, w>>
           ELSE /\ items' = r.t.items
                /\ itemsFilter' = r.t.itemsFilter
                /\ renderSelection' = r.t.renderSelection
                /\ selection' = r.t.selection
                /\ mode' = r.t.mode
                /\ filter' = r.t.filter
                /\ h' = r.t.h
                /\ w' = r.t.w

InHelp == mode = help
InFilterEntry == mode # help /\ Focused(filter)
InNavigation == mode # help /\ ~Focused(filter)

HelpDismiss == \E k \in Keys : InHelp /\ Handle(KeyMsg(k))

FilterLeave == \E k \in {"esc", "tab", "down"} : InFilterEntry /\ Handle(KeyMsg(k))

FilterEdit ==
    \E k \in FilterKeys \ {"esc", "tab", "down"} :
        /\ InFilterEntry
        /\ k \in Runes => Len(Value(filter)) < MaxFilterLen
        /\ Handle(KeyMsg(k))

CursorKey == \E k \in {"up", "down"} : InNavigation /\ Handle(KeyMsg(k))

TabKey == InNavigation /\ Handle(KeyMsg("tab"))

StatusKey == \E k \in StatusKeys : InNavigation /\ Handle(KeyMsg(k))

FocusKey == InNavigation /\ Handle(KeyMsg("/"))

HelpKey == InNavigation /\ Handle(KeyMsg("?"))

QuitKey == InNavigation /\ Handle(KeyMsg("q"))

IgnoredKey == \E k \in {"esc", "backspace", "#"} : InNavigation /\ Handle(KeyMsg(k))

Resize == \E hh \in Heights, ww \in Widths : Handle(WindowSizeMsg(hh, ww))

Blink == Handle(BlinkMsg)

Next ==
    \/ HelpDismiss
    \/ FilterLeave
    \/ FilterEdit
    \/ CursorKey
    \/ TabKey
    \/ StatusKey
    \/ FocusKey
    \/ HelpKey
    \/ QuitKey
    \/ IgnoredKey
    \/ Resize
    \/ Blink

Spec == Init /\ [][Next]_vars

\* the program under key presses and blink messages alone (no resize, so
\* that h and w keep the values newTUI gives them)
NextKeys ==
    \/ HelpDismiss
    \/ FilterLeave
    \/ FilterEdit
    \/ CursorKey
    \/ TabKey
    \/ StatusKey
    \/ FocusKey
    \/ HelpKey
    \/ QuitKey
    \/ IgnoredKey
    \/ Blink

SpecKeys == Init /\ [][NextKeys]_vars

(***************************************************************************)
(* populateRenderSelection on its own: applied, and applied again, to a    *)
(* tui whose items, view, filter text, cursor and previous list are drawn  *)
(* freely (the cursor also out of the range of any list).                  *)
(***************************************************************************)
\* the characters of filter texts: those of the tags and the separator
FilterRunes == {"#", "a", "q", " "}

FilterTexts == UNION {[1..n -> FilterRunes] : n \in 0..MaxFilterLen}

Cursors == (0 - 2)..(2 * NumItems)

PreviousLists == {<< >>, [n \in 1..NumItems |-> NumItems + 1 - n]}

InitRecompute ==
    /\ items \in ItemLists
    /\ itemsFilter \in {todo, done}
    /\ renderSelection \in PreviousLists
    /\ selection \in Cursors
    /\ mode = navigation
    /\ filter \in {[value |-> v, focus |-> FALSE] : v \in FilterTexts}
    /\ h = 0
    /\ w = 0
    /\ tagColors = populateTagColorStyles(items, 0)
    /\ pc = "drawn"

Recompute ==
    /\ pc \in {"drawn", "once"}
    /\ \E t \in {populateRenderSelection(T)} :
        /\ items' = t.items
        /\ itemsFilter' = t.itemsFilter
        /\ renderSelection' = t.renderSelection
        /\ selection' = t.selection
        /\ mode' = t.mode
        /\ filter' = t.filter
        /\ h' = t.h
        /\ w' = t.w
    /\ pc' = IF pc = "drawn" THEN "once" ELSE "twice"
    /\ UNCHANGED tagColors

SpecRecompute == InitRecompute /\ [][Recompute]_vars

(***************************************************************************)
(* populateTagColorStyles on its own: applied to item sets with the tags   *)
(* #a and #aq and up to MaxRepeat occurrences of #q, in every order of the *)
(* three items, with offsets at both ends and in the middle of [0, 360).   *)
(***************************************************************************)
Offsets == {0, 1, (FullCircle \div 2) * OffsetDen + 1, FullCircle * OffsetDen - 1}

TagItems(r) ==
    << [status |-> "Open", tags |-> << <<"#", "a">> >>],
       [status |-> "Open", tags |-> << <<"#", "a", "q">> >>],
       [status |-> "Open", tags |-> [n \in 1..r |-> <<"#", "q">>]] >>

Orders == {o \in [1..3 -> 1..3] : \A m, n \in 1..3 : o[m] = o[n] => m = n}

NoStyles == [tag \in {} |-> 0]

InitHues ==
    /\ items \in {[n \in 1..3 |-> TagItems(r)[o[n]]] : r \in 0..MaxRepeat, o \in Orders}
    /\ itemsFilter = todo
    /\ renderSelection = << >>
    /\ selection = 0
    /\ mode = navigation
    /\ filter = textinputNew
    /\ h = 0
    /\ w = 0
    /\ tagColors = NoStyles
    /\ pc = "drawn"

Style ==
    /\ pc = "drawn"
    /\ \E off \in Offsets : tagColors' = populateTagColorStyles(items, off)
    /\ pc' = "styled"
    /\ UNCHANGED <<items, itemsFilter, renderSelection, selection, mode, filter, h, w>>

SpecHues == InitHues /\ [][Style]_vars

(***************************************************************************)
(* Vocabulary of the properties.                                           *)
(***************************************************************************)
InSeq(x, s) == \E n \in 1..Len(s) : s[n] = x

NoDuplicates(s) == \A m, n \in 1..Len(s) : s[m] = s[n] => m = n

AllMsgs ==
    {KeyMsg(k) : k \in Keys}
        \cup {WindowSizeMsg(hh, ww) : hh \in Heights, ww \in Widths}
        \cup {BlinkMsg}

\* the status set of a view: Active (todo) and Resolved (done)
ViewSet(v) == IF v = todo THEN {"Open", "Ongoing"} ELSE {"Checked", "Obsolete"}

\* item p matches the view and the filter text of t
Eligible(t, p) ==
    /\ t.items[p].status \in ViewSet(t.itemsFilter)
    /\ LET filterTags == Tags(t.filter.value)
       IN \/ filterTags = << >>
          \/ \E i \in 1..Len(t.items[p].tags), j \in 1..Len(filterTags) :
               HasPrefix(t.items[p].tags[i], filterTags[j])

\* the recomputations of visible that an Update of the current state can
\* perform: on entry (line 147), inside tab (line 213) and inside
\* currentSelection (line 218), each with the tui it is applied to
RecomputeInputs ==
    LET t1 == populateRenderSelection(T)
    IN {T, t1, [t1 EXCEPT !.itemsFilter = Toggle(@)],
        [t1 EXCEPT !.itemsFilter = Toggle(@), !.filter = Blur(@)]}

Recomputations == {[in |-> t, out |-> populateRenderSelection(t)] : t \in RecomputeInputs}

\* the tui on which the key switch of an Update of the current state acts
Entered == populateRenderSelection(T)

CursorValid(t) == 0 <= t.selection /\ t.selection < Len(t.renderSelection)

(***************************************************************************)
(* C1.  Cursor validity: at the end of every Update, a non-empty visible   *)
(* (renderSelection) has 0 <= cursor < len(visible), also after visible    *)
(* was empty and became non-empty again.                                   *)
(***************************************************************************)
C1_CursorValid ==
    Len(renderSelection) > 0 =>
        (0 <= selection /\ selection < Len(renderSelection))

(***************************************************************************)
(* C2.  Empty selection is benign: in Navigation mode, when no item        *)
(* matches the view and the filter, a status key completes without a       *)
(* failure and changes no item's status.                                   *)
(***************************************************************************)
C2_EmptySelectionBenign ==
    [][(StatusKey /\ \A p \in 1..Len(items) : ~Eligible(T, p))
          => (pc' # "panic" /\ items' = items)]_vars

(***************************************************************************)
(* C3.  A status change is reflected immediately: in Navigation mode with  *)
(* a non-empty visible (and an item under the cursor), a status key whose  *)
(* target is outside the view's status set gives the current item that     *)
(* status, and when the event has been processed the item is no longer in  *)
(* visible.                                                                *)
(***************************************************************************)
C3_StatusChangeReflected ==
    [][\A k \in StatusKeys :
          (/\ InNavigation
           /\ CursorValid(Entered)
           /\ StatusOfKey(k) \notin ViewSet(itemsFilter)
           /\ Handle(KeyMsg(k)))
          => LET cur == Entered.renderSelection[Entered.selection + 1]
             IN /\ items'[cur].status = StatusOfKey(k)
                /\ ~InSeq(cur, renderSelection')]_vars

(***************************************************************************)
(* C4.  No duplicates in visible: after any recomputation every item       *)
(* occurs at most once in visible, for every filter text and tag list.     *)
(***************************************************************************)
\* (every visible the program holds is the result of a recomputation)
C4_NoDuplicates == NoDuplicates(renderSelection)

C6_FilterEditRecomputes ==
    [][(\E k \in Keys \ {"esc", "tab", "down"} : InFilterEntry /\ Handle(KeyMsg(k)))
          => \A p \in 1..Len(items') :
                InSeq(p, renderSelection')
                    <=> Eligible([items |-> items', itemsFilter |-> itemsFilter',
                                  filter |-> filter'], p)]_vars

(***************************************************************************)
(* C7.  Re-clamp rule: every recomputation ends with                       *)
(* cursor <= len(visible) - 1, with cursor = -1 when visible is empty, and *)
(* leaves a cursor with cursor + 1 < len(visible) unchanged; the cursor is *)
(* never below -1 in a reachable state.                                    *)
(***************************************************************************)
C7_ReclampRule ==
    /\ selection >= -1
    /\ \A rc \in Recomputations :
        /\ rc.out.selection <= Len(rc.out.renderSelection) - 1
        /\ Len(rc.out.renderSelection) = 0 => rc.out.selection = -1
        /\ rc.in.selection + 1 < Len(rc.out.renderSelection)
              => rc.out.selection = rc.in.selection
        /\ rc.out.selection >= -1

\* a recomputation found visible empty and set the cursor, 0 at the start,
\* to -1
C7_Witness ==
    /\ pc = "running"
    /\ renderSelection = << >>
    /\ selection = -1

(***************************************************************************)
(* C8.  Status is changed only by status keys pressed in Navigation mode:  *)
(* every other event (any key in Help or with the filter focused, the      *)
(* other Navigation keys, a resize, any other message) leaves every item's *)
(* status unchanged, and no event changes the items' number, order or      *)
(* tags (they are in every reachable state those handed to newTUI).        *)
(***************************************************************************)
C8_StatusOnlyByStatusKeys ==
    /\ Len(items) = NumItems
    /\ \A p \in 1..Len(items) : items[p].tags = ItemTags(p)
    /\ \A m \in AllMsgs :
        ~(m.type = "KeyMsg" /\ m.key \in StatusKeys /\ InNavigation)
            => LET r == Update(T, m) IN ~r.panic /\ r.t.items = items

\* a state that tab, a filter edit, the help key and a resize have led to,
\* with an item in each view
C8_Witness ==
    /\ itemsFilter = done
    /\ Value(filter) # << >>
    /\ mode = help
    /\ h \in Heights
    /\ \E p, q \in 1..Len(items) :
        items[p].status \in ViewSet(todo) /\ items[q].status \in ViewSet(done)

(***************************************************************************)
(* C9.  Status key mapping: in Navigation mode, when the visible that the  *)
(* Update recomputes on entry is non-empty and the cursor is valid, x sets *)
(* the item under the cursor to Checked; -, ~ and s to Obsolete; @ and a   *)
(* to Ongoing; space to Open; whatever its status was; and every other     *)
(* item is unchanged.                                                      *)
(***************************************************************************)
C9_Target(k) ==
    IF k = "x" THEN "Checked"
    ELSE IF k \in {"-", "~", "s"} THEN "Obsolete"
    ELSE IF k \in {"@", "a"} THEN "Ongoing"
    ELSE "Open"

Clamp(x, lo, hi) == IF x < lo THEN lo ELSE IF x > hi THEN hi ELSE x

C10_CursorMovement ==
    \A k \in {"up", "down"} :
        InNavigation =>
            LET r == Update(T, KeyMsg(k))
                n == Len(Entered.renderSelection)
                delta == IF k = "up" THEN -1 ELSE 1
            IN /\ ~r.panic
               /\ r.t.selection =
                    IF n > 0 THEN Clamp(Entered.selection + delta, 0, n - 1)
                    ELSE Entered.selection

(***************************************************************************)
(* C11.  View toggle: tab in Navigation mode changes the view from Active  *)
(* to Resolved and from Resolved to Active, so that two tabs restore it;   *)
(* when the event has been processed visible is the derivation for the new *)
(* view and the unchanged filter text (by its members, and unchanged by a  *)
(* further recomputation), and the cursor is re-clamped against it.        *)
(***************************************************************************)
C11_ViewToggle ==
    InNavigation =>
        LET r == Update(T, KeyMsg("tab"))
            r2 == Update(r.t, KeyMsg("tab"))
            n == Len(r.t.renderSelection)
        IN /\ ~r.panic /\ r.cmd = "nil"
           /\ r.t.itemsFilter = (IF itemsFilter = todo THEN done ELSE todo)
           /\ r2.t.itemsFilter = itemsFilter
           /\ r.t.filter = filter
           /\ \A p \in 1..Len(items) : InSeq(p, r.t.renderSelection) <=> Eligible(r.t, p)
           /\ populateRenderSelection(r.t).renderSelection = r.t.renderSelection
           /\ r.t.selection <= n - 1
           /\ r.t.selection = (IF Entered.selection + 1 >= n THEN n - 1 ELSE Entered.selection)

\* the Resolved view, which only tab leads to: visible holds Resolved items
\* only, the cursor is on one of them, and an Active item is left out
C11_Witness ==
    /\ pc = "running"
    /\ InNavigation
    /\ itemsFilter = done
    /\ CursorValid(T)
    /\ \A n \in 1..Len(renderSelection) :
        items[renderSelection[n]].status \in ViewSet(done)
    /\ \E p \in 1..Len(items) : items[p].status \in ViewSet(todo)

C13_DismissedByAnyKey ==
    InHelp =>
        /\ ~Focused(filter)
        /\ \A k \in Keys :
               LET r == Update(T, KeyMsg(k))
               IN ~r.panic /\ r.cmd = "nil" /\ r.t = [T EXCEPT !.mode = navigation]

C13_EnteredByHelpKey ==
    (mode # help /\ mode' = help) =>
        /\ InNavigation
        /\ pc' = "running"
        /\ \A m \in AllMsgs :
               (~Update(T, m).panic /\ T' = Update(T, m).t) <=> m = KeyMsg("?")

C13_HelpDismissal == []C13_DismissedByAnyKey /\ [][C13_EnteredByHelpKey]_vars

\* Help is shown over a visible list with two elements,
\* the cursor on an Open item, where x, tab, down, / and q would all act
C13_Witness ==
    /\ pc = "running"
    /\ InHelp
    /\ Len(renderSelection) >= 2
    /\ selection = 0
    /\ items[renderSelection[1]].status = "Open"
    /\ Update(T, KeyMsg("x")).t.mode = navigation
    /\ Update(T, KeyMsg("x")).t.items = items

(***************************************************************************)
(* C14.  Quit: Update returns the quit command exactly for q pressed in    *)
(* Navigation mode (not for q typed in the focused filter input, not for   *)
(* q pressed in Help, not for any other message), and that Update changes  *)
(* no item status, neither the view nor the filter text.                   *)
(***************************************************************************)
C14_QuitOnlyByQ ==
    /\ \A m \in AllMsgs :
           LET r == Update(T, m)
           IN (~r.panic /\ r.cmd = "Quit") <=> (m = KeyMsg("q") /\ InNavigation)
    /\ InNavigation =>
           LET r == Update(T, KeyMsg("q"))
           IN /\ r.t.items = items
              /\ r.t.itemsFilter = itemsFilter
              /\ r.t.filter = filter
              /\ r.t.mode = mode

\* the session ended by q, and the end left done items, the done view and
\* a filter text in place
C14_Witness ==
    /\ pc = "quit"
    /\ itemsFilter = done
    /\ Value(filter) # << >>
    /\ \E p \in 1..Len(items) : items[p].status \in ViewSet(done)

(***************************************************************************)
(* C15.  Resize frame: a WindowSizeMsg changes only h and w; mode, filter  *)
(* focus and text, view, every item status, visible (renderSelection) and  *)
(* cursor (selection) are after the event what they were before it.        *)
(* Stated for the resize events that follow the first one (h is set), so   *)
(* that the list newTUI leaves unbuilt is not what the statement is about. *)
(***************************************************************************)
C15_ResizeFrame ==
    h \in Heights =>
        \A hh \in Heights, ww \in Widths :
            LET r == Update(T, WindowSizeMsg(hh, ww))
            IN ~r.panic /\ r.cmd = "nil" /\ r.t = [T EXCEPT !.h = hh, !.w = ww]

(***************************************************************************)
(* C16.  Idempotent recomputation: for every item list, view, filter text, *)
(* cursor and previous list, populateRenderSelection applied twice gives   *)
(* the renderSelection and the selection that one application gives.       *)
(***************************************************************************)
C16_Idempotent ==
    /\ LET once == populateRenderSelection(T)
           twice == populateRenderSelection(once)
       IN /\ twice.renderSelection = once.renderSelection
          /\ twice.selection = once.selection
    /\ pc = "once" =>
           /\ populateRenderSelection(T).renderSelection = renderSelection
           /\ populateRenderSelection(T).selection = selection

\* after the second application: a filter text that selects among the items
\* of the view, the cursor on the last element of the list
C16_Witness ==
    /\ pc = "twice"
    /\ Tags(Value(filter)) # << >>
    /\ Len(renderSelection) >= 1
    /\ selection = Len(renderSelection) - 1
    /\ \E p \in 1..Len(items) :
          items[p].status \in ViewSet(itemsFilter) /\ ~InSeq(p, renderSelection)

(***************************************************************************)
(* C17.  Stable order: in the result of every recomputation (of the tui    *)
(* as it is, and of the tui an Update hands to tab or currentSelection),   *)
(* every member of renderSelection is an item of items, and the members    *)
(* appear in the order they have in items: positions never decrease along  *)
(* the list, for both views and every filter text.  (Repetitions of an     *)
(* item, C4, are adjacent and are not what this statement is about.)       *)
(***************************************************************************)
C17_StableOrder ==
    \A rc \in Recomputations :
        LET rs == rc.out.renderSelection
        IN /\ \A n \in 1..Len(rs) : rs[n] \in 1..Len(items)
           /\ \A m, n \in 1..Len(rs) : m < n => rs[m] <= rs[n]
           /\ rc.out.items = rc.in.items

\* two distinct items listed under a filter text, in the done view
C17_Witness ==
    /\ pc = "once"
    /\ itemsFilter = done
    /\ Tags(Value(filter)) # << >>
    /\ \E m, n \in 1..Len(renderSelection) : renderSelection[m] < renderSelection[n]
    /\ populateRenderSelection(T).renderSelection = renderSelection

(***************************************************************************)
(* C18.  Distinct tag hues: for an item set with at least two distinct     *)
(* tags, whatever the offset and the number of tag occurrences, the hues   *)
(* populateTagColorStyles leaves in the map for two distinct tags differ.  *)
(***************************************************************************)
C18_DistinctHues ==
    pc = "styled" =>
        \A s, t \in DOMAIN tagColors : s # t => tagColors[s] # tagColors[t]

(***************************************************************************)
(* C19.  A status key never alters a hidden item: in every reachable       *)
(* state, an item whose status a status key pressed in Navigation mode     *)
(* changes is the element at the cursor of the list as recomputed when the *)
(* key is handled; before the key its status is in the status set of the   *)
(* view and it matches the filter text.  A list left stale by an earlier   *)
(* status change or filter edit does not let the key reach another item.   *)
(***************************************************************************)
C19_StatusKeyOnVisibleItem ==
    InNavigation =>
        LET e == Entered
        IN \A k \in StatusKeys :
              LET r == Update(T, KeyMsg(k))
              IN \A p \in 1..Len(items) :
                    (~r.panic /\ r.t.items[p] # items[p]) =>
                        /\ CursorValid(e)
                        /\ p = e.renderSelection[e.selection + 1]
                        /\ items[p].status \in ViewSet(itemsFilter)
                        /\ Eligible(T, p)

\* the list is stale, the item at its cursor is hidden by the view, and x
\* changes the status of another item
C19_Witness ==
    /\ pc = "running"
    /\ InNavigation
    /\ CursorValid(T)
    /\ ~Eligible(T, renderSelection[selection + 1])
    /\ LET r == Update(T, KeyMsg("x"))
       IN /\ ~r.panic
          /\ r.t.items # items
          /\ r.t.items[renderSelection[selection + 1]] = items[renderSelection[selection + 1]]

(***************************************************************************)
(* C20.  Mode exclusivity: in every reachable state mode is navigation or  *)
(* help, and the filter input is not focused while mode is help, so the    *)
(* state is exactly one of Navigation, FilterEntry, Help.  A ? typed in    *)
(* the focused input is appended to the text and leaves mode alone; no     *)
(* message handled in Help focuses the input; and only the handling of /   *)
(* in Navigation turns an unfocused input into a focused one.              *)
(***************************************************************************)
C20_ModeExclusivity ==
    /\ mode \in {navigation, help}
    /\ ~(mode = help /\ Focused(filter))
    /\ Cardinality({n \in 1..3 : <<InNavigation, InFilterEntry, InHelp>>[n]}) = 1
    /\ InFilterEntry =>
           LET r == Update(T, KeyMsg("?"))
           IN /\ ~r.panic
              /\ r.t.mode = navigation
              /\ Focused(r.t.filter)
              /\ Value(r.t.filter) = Append(Value(filter), "?")
    /\ ~Focused(filter) =>
           \A m \in AllMsgs :
               Focused(Update(T, m).t.filter) => (m = KeyMsg("/") /\ mode = navigation)

\* a filter text is being typed, and a ? now would be appended to it
C20_Witness ==
    /\ pc = "running"
    /\ InFilterEntry
    /\ Value(filter) # << >>
    /\ Value(Update(T, KeyMsg("?")).t.filter) = Append(Value(filter), "?")
    /\ Update(T, KeyMsg("?")).t.mode = navigation

====
